---- MODULE Spec2Model ----
(***************************************************************************)
(* Model of src/main.py: the subscription-gated Telegram bot               *)
(* (TelegramBot.start, check_subscription, button_handler,                 *)
(* handle_text_message, search_user/search_channel/search_group).          *)
(*                                                                         *)
(* python-telegram-bot dispatches one update at a time (the Application is *)
(* built without concurrent_updates), so every handler runs to completion  *)
(* before the next update is taken: one action per handler.  Every call to *)
(* the Bot API made by a handler either returns or raises; the handler's   *)
(* possible executions are computed as a set of runs, one per combination  *)
(* of outcomes, following the try/except structure of the code.            *)
(*                                                                         *)
(* Text is modelled as a sequence of one-character strings so that         *)
(* startswith, slicing and concatenation are computed, not assumed.        *)
(***************************************************************************)
EXTENDS Integers, Sequences, FiniteSets, TLC

VARIABLES
    CHANNEL_ID,          \* main.py:28, <<>> when the variable is unset or empty
    CHANNEL_URL,         \* main.py:29
    WARNING_IMAGE_URL,   \* main.py:30
    user_count,          \* main.py:33
    user_search_states,  \* main.py:36, a dict keyed by (chat_id, user_id)
    ev,                  \* the update handled last and what its handler did
    tasks                \* the start handlers in flight when updates are handled
                         \* concurrently, <<>> when they are handled one at a time

vars == <<CHANNEL_ID, CHANNEL_URL, WARNING_IMAGE_URL, user_count, user_search_states, ev, tasks>>

----------------------------------------------------------------------------
(* Bounds and input domains *)

\* /start is handled at most MaxStarts times in a behaviour
MaxStarts == 2

Users == {1, 2}
Chats == {1}
\* chat_id = None (main.py:213): the pressed button belongs to no chat message
None == 0
Keys == (Chats \cup {None}) \X Users

\* the value of user_search_states.get(key) when the key is not in the dict
Absent == "absent"
SearchStates == {"waiting_user_search", "waiting_channel_search", "waiting_group_search"}

\* telegram.constants.ChatMemberStatus, and "error" for get_chat_member raising
MemberStatuses == {"member", "administrator", "creator"}
OtherStatuses == {"left", "kicked", "restricted"}
Answers == MemberStatuses \cup OtherStatuses \cup {"error"}

\* callback_data of the buttons the bot has ever attached, and one it does not know
Tokens == {"check_subscription", "search_user", "search_channel", "search_group",
           "search_back", "get_user_id"}

HTTPS == <<"h", "t", "t", "p", "s", ":", "/", "/">>
HTTP == <<"h", "t", "t", "p", ":", "/", "/">>
TME == HTTPS \o <<"t", ".", "m", "e", "/">>
\* "https://example.com/warning.png" (main.py:132)
PLACEHOLDER == HTTPS \o <<"e">>

ChannelIds == {<<>>, <<"@", "c">>, <<"-", "1">>}
ChannelUrls == {<<>>, HTTPS \o <<"x">>, HTTP \o <<"x">>, <<"@", "u">>, <<"t">>}
ImageUrls == {<<>>, PLACEHOLDER, HTTPS \o <<"w">>}

\* free text a user may send
Texts == {<<"@", "n">>, <<"n", "_">>}

----------------------------------------------------------------------------
(* Text helpers *)

\* str.startswith
StartsWith(s, p) == Len(s) >= Len(p) /\ SubSeq(s, 1, Len(p)) = p

\* s[1:]
Tail1(s) == SubSeq(s, 2, Len(s))

\* the characters of the model's alphabet that MarkdownV2 reserves
\* (telegram.helpers.escape_markdown, version=2)
MarkdownV2Special == {"_", "-", ".", "!"}

RECURSIVE escape_markdown(_)
escape_markdown(s) ==
    IF s = <<>> THEN <<>>
    ELSE (IF Head(s) \in MarkdownV2Special THEN <<"\\", Head(s)>> ELSE <<Head(s)>>)
         \o escape_markdown(Tail(s))

----------------------------------------------------------------------------
(* Rendered payloads: the text variant, what is interpolated into it, and   *)
(* the inline keyboard (one button per row).                               *)

UrlButton(label, url) == [label |-> label, url |-> url, callback_data |-> ""]
CallbackButton(label, token) == [label |-> label, url |-> <<>>, callback_data |-> token]

Payload(text, arg, ordinal, keyboard) ==
    [text |-> text, arg |-> arg, ordinal |-> ordinal, keyboard |-> keyboard]

NoPayload == Payload("", <<>>, 0, <<>>)

\* main.py:83-88: the welcome text carries the counter value
WelcomeText(n) == Payload("welcome", <<>>, n, <<>>)

\* main.py:151-158, 185-191, 245-251: the same text and keyboard three times
MainMenu ==
    Payload("subscribed_menu", <<>>, 0,
            << CallbackButton("search_user", "search_user"),
               CallbackButton("search_channel", "search_channel"),
               CallbackButton("search_group", "search_group") >>)

\* main.py:106-121
subscribe_url ==
    IF CHANNEL_URL # <<>>
    THEN IF StartsWith(CHANNEL_URL, HTTPS) \/ StartsWith(CHANNEL_URL, HTTP)
         THEN CHANNEL_URL
         ELSE IF StartsWith(CHANNEL_URL, <<"@">>) THEN TME \o Tail1(CHANNEL_URL)
         ELSE <<>>
    ELSE IF CHANNEL_ID # <<>> /\ StartsWith(CHANNEL_ID, <<"@">>)
         THEN TME \o Tail1(CHANNEL_ID)
         ELSE <<>>

\* main.py:103, 109-121: the numeric channel id is appended to the text only in
\* the last arm of the if/elif chain
SubscriptionText ==
    IF CHANNEL_URL # <<>> THEN <<>>
    ELSE IF CHANNEL_ID # <<>> /\ StartsWith(CHANNEL_ID, <<"@">>) THEN <<>>
    ELSE IF CHANNEL_ID # <<>> THEN CHANNEL_ID
    ELSE <<>>

\* main.py:103-129
SubscriptionRequired ==
    Payload("subscription_required", SubscriptionText, 0,
            (IF subscribe_url # <<>> THEN <<UrlButton("subscribe", subscribe_url)>> ELSE <<>>)
            \o <<CallbackButton("recheck", "check_subscription")>>)

\* main.py:215, 225, 235
SearchPrompt(state) == Payload(state, <<>>, 0, <<>>)

\* main.py:325, 367, 409
BackKeyboard == <<CallbackButton("back", "search_back")>>

\* query.answer(text, show_alert=True) at main.py:209 and 219/229/239/255,
\* query.answer() at 257, query.answer(text) at 261
RecheckAlert == Payload("alert_not_subscribed", <<>>, 0, <<>>)
GateAlert == Payload("alert_subscribe_first", <<>>, 0, <<>>)
PlainAck == NoPayload
FailureNotice == Payload("failure_notice", <<>>, 0, <<>>)

----------------------------------------------------------------------------
(* Runs of a handler.  A run is the list of Bot API calls made so far, the  *)
(* session store as the handler has left it, whether an exception is       *)
(* propagating, and what is_subscribed returned if the run has called it.  *)

ApiCall(call, payload, ok, res) == [call |-> call, payload |-> payload, ok |-> ok, res |-> res]

Begin(st) == [out |-> <<>>, st |-> st, raised |-> FALSE, status |-> "NONE"]

\* `await <call>`: in every run that is still executing, the call returns or raises
Await(R, call, payload) ==
    UNION { IF r.raised THEN {r}
            ELSE { [r EXCEPT !.out = Append(@, ApiCall(call, payload, TRUE, ""))],
                   [r EXCEPT !.out = Append(@, ApiCall(call, payload, FALSE, "")),
                             !.raised = TRUE] } : r \in R }

\* try: R  except: ...  -- the runs of R that left the try block normally,
\* and the runs that raised, as they enter the except block
Returned(R) == { r \in R : ~r.raised }
Caught(R) == { [r EXCEPT !.raised = FALSE] : r \in { q \in R : q.raised } }

\* try: R  except: pass
ExceptPass(R) == { [r EXCEPT !.raised = FALSE] : r \in R }

\* Store with a dict keyed by the user alone: every chat of the user is written
Store_keyed_by_user(R, key, v) ==
    { IF r.raised THEN r
      ELSE [r EXCEPT !.st = [k \in DOMAIN r.st |-> IF k[2] = key[2] THEN v ELSE r.st[k]]]
      : r \in R }

\* user_search_states[key] = v, and user_search_states.pop(key, None) for v = Absent
Store(R, key, v) == { IF r.raised THEN r ELSE [r EXCEPT !.st[key] = v] : r \in R }

----------------------------------------------------------------------------
(* Subscription check, main.py:52-70 *)

\* is_subscribed returning True from its except block (fail-open)
is_subscribed_fail_open(m) ==
    IF CHANNEL_ID = <<>> THEN TRUE
    ELSE IF m = "error" THEN TRUE
    ELSE m \in MemberStatuses

\* the value is_subscribed returns when get_chat_member answers m
is_subscribed(m) ==
    IF CHANNEL_ID = <<>> THEN TRUE
    ELSE IF m = "error" THEN FALSE
    ELSE m \in MemberStatuses

Status(m) == IF is_subscribed(m) THEN "MEMBER" ELSE "NOT_MEMBER"

\* `await self.is_subscribed(...)`: no call without CHANNEL_ID, else one
\* get_chat_member whose exception is caught inside is_subscribed
AwaitIsSubscribed(R, m) ==
    { IF r.raised THEN r
      ELSE IF CHANNEL_ID = <<>> THEN [r EXCEPT !.status = Status(m)]
      ELSE [r EXCEPT !.out = Append(@, ApiCall("get_chat_member", NoPayload, m # "error", m)),
                     !.status = Status(m)]
      : r \in R }

----------------------------------------------------------------------------
(* Renderers *)

\* main.py:98-144
show_subscription_required(R, has_message) ==
    IF ~has_message THEN R
    ELSE LET tried == IF WARNING_IMAGE_URL # <<>> /\ WARNING_IMAGE_URL # PLACEHOLDER
                      THEN Await(Returned(R), "reply_photo", SubscriptionRequired)
                      ELSE Await(Returned(R), "reply_text", SubscriptionRequired)
         IN  { r \in R : r.raised } \cup Returned(tried)
             \cup Await(Caught(tried), "reply_text", SubscriptionRequired)

\* main.py:146-160
show_subscribed_message(R, has_message) ==
    IF ~has_message THEN R
    ELSE Await(R, "reply_text", MainMenu)

----------------------------------------------------------------------------
(* Command handlers *)

\* start that begins a fresh conversation: every pending search is dropped
start_forgets_searches(st, m, n) ==
    LET fresh == [k \in DOMAIN st |-> Absent]
        welcomed == AwaitIsSubscribed(Await({Begin(fresh)}, "reply_text", WelcomeText(n)), m)
    IN  IF is_subscribed(m)
        THEN show_subscribed_message(welcomed, TRUE)
        ELSE show_subscription_required(welcomed, TRUE)

\* start that shows the main menu whatever is_subscribed answers
start_menu_for_everyone(st, m, n) ==
    LET welcomed == AwaitIsSubscribed(Await({Begin(st)}, "reply_text", WelcomeText(n)), m)
    IN  show_subscribed_message(welcomed, TRUE)

\* main.py:72-96, after the guard of line 74; n is user_count after line 80
start(st, m, n) ==
    LET welcomed == AwaitIsSubscribed(Await({Begin(st)}, "reply_text", WelcomeText(n)), m)
    IN  IF is_subscribed(m)
        THEN show_subscribed_message(welcomed, TRUE)
        ELSE show_subscription_required(welcomed, TRUE)

\* check_subscription that shows the prompt to everyone but banned users
check_subscription_silent_for_kicked(st, has_message, m) ==
    LET checked == AwaitIsSubscribed({Begin(st)}, m)
    IN  IF is_subscribed(m)
        THEN show_subscribed_message(checked, has_message)
        ELSE IF m = "kicked" THEN checked
        ELSE show_subscription_required(checked, has_message)

\* main.py:162-172
check_subscription(st, has_message, m) ==
    LET checked == AwaitIsSubscribed({Begin(st)}, m)
    IN  IF is_subscribed(m)
        THEN show_subscribed_message(checked, has_message)
        ELSE show_subscription_required(checked, has_message)

----------------------------------------------------------------------------
(* Button presses, main.py:174-261 *)

\* recheck_branch that shows the prompt in the message of an unsubscribed user
recheck_branch_edits_prompt(r, chat, m) ==
    IF is_subscribed(m)
    THEN Await({r}, "edit_message_text", MainMenu)
    ELSE Await(Await({r}, "edit_message_text", SubscriptionRequired), "answer", RecheckAlert)

\* main.py:183-209: query.data == "check_subscription"
recheck_branch(r, chat, m) ==
    IF is_subscribed(m)
    THEN LET edited == Await({r}, "edit_message_text", MainMenu)
         IN  Returned(edited) \cup
             (IF chat # None
              THEN Await(ExceptPass(Await(Caught(edited), "delete", NoPayload)),
                         "send_message", MainMenu)
              ELSE Caught(edited))
    ELSE Await({r}, "answer", RecheckAlert)

\* search_branch with the state stored before the subscription check
search_branch_stores_first(r, user, chat, m, state) ==
    LET stored == Store({r}, <<chat, user>>, state)
    IN  IF is_subscribed(m)
        THEN IF chat # None
             THEN Await(stored, "edit_message_text", SearchPrompt(state))
             ELSE stored
        ELSE Await(stored, "answer", GateAlert)

\* search_branch that keeps a state that is already pending
search_branch_keeps_pending(r, user, chat, m, state) ==
    IF is_subscribed(m)
    THEN LET stored == IF r.st[<<chat, user>>] = Absent
                       THEN Store({r}, <<chat, user>>, state)
                       ELSE {r}
         IN  IF chat # None
             THEN Await(stored, "edit_message_text", SearchPrompt(state))
             ELSE stored
    ELSE Await({r}, "answer", GateAlert)

\* main.py:211-239: query.data in search_user, search_channel, search_group;
\* state is the value stored for the category
search_branch(r, user, chat, m, state) ==
    IF is_subscribed(m)
    THEN LET stored == Store({r}, <<chat, user>>, state)
         IN  IF chat # None
             THEN Await(stored, "edit_message_text", SearchPrompt(state))
             ELSE stored
    ELSE Await({r}, "answer", GateAlert)

\* back_branch that clears the state only once the menu has been shown
back_branch_clears_after_edit(r, user, chat, m) ==
    IF is_subscribed(m)
    THEN IF chat # None
         THEN Store(Await({r}, "edit_message_text", MainMenu), <<chat, user>>, Absent)
         ELSE Store({r}, <<chat, user>>, Absent)
    ELSE Await({r}, "answer", GateAlert)

\* main.py:241-255: query.data == "search_back"
back_branch(r, user, chat, m) ==
    IF is_subscribed(m)
    THEN LET popped == Store({r}, <<chat, user>>, Absent)
         IN  IF chat # None
             THEN Await(popped, "edit_message_text", MainMenu)
             ELSE popped
    ELSE Await({r}, "answer", GateAlert)

\* the state a search button stores
WaitingState(data) ==
    CASE data = "search_user" -> "waiting_user_search"
      [] data = "search_channel" -> "waiting_channel_search"
      [] data = "search_group" -> "waiting_group_search"

\* main.py:182-261; chat is None when query.message is missing
button_handler(st, user, chat, data, m) ==
    LET r == Begin(st)
        branch ==
            IF data = "check_subscription"
            THEN UNION { recheck_branch(c, chat, m) : c \in AwaitIsSubscribed({r}, m) }
            ELSE IF data \in {"search_user", "search_channel", "search_group"}
            THEN UNION { search_branch(c, user, chat, m, WaitingState(data))
                         : c \in AwaitIsSubscribed({r}, m) }
            ELSE IF data = "search_back"
            THEN UNION { back_branch(c, user, chat, m) : c \in AwaitIsSubscribed({r}, m) }
            ELSE {r}
        acknowledged == Await(branch, "answer", PlainAck)
    IN  Returned(acknowledged) \cup Await(Caught(acknowledged), "answer", FailureNotice)

----------------------------------------------------------------------------
(* Free text, main.py:264-412 *)

\* main.py:298-299, 336-337, 378-379
StripAt(name) == IF StartsWith(name, <<"@">>) THEN Tail1(name) ELSE name

\* main.py:292-328; nothing in the try block raises
search_user(R, key, username) ==
    Await(Store(R, key, Absent), "reply_text",
          Payload("user_search_limitation", escape_markdown(StripAt(username)), 0, BackKeyboard))

\* search_channel that forgets to clear the state after a successful lookup
search_channel_keeps_state(R, key, channel_name) ==
    LET name == StripAt(channel_name)
        tried == Await(R, "get_chat", Payload("", <<"@">> \o name, 0, <<>>))
    IN  UNION { Await({[t EXCEPT !.raised = FALSE]}, "reply_text",
                      IF t.raised
                      THEN Payload("channel_not_found", escape_markdown(name), 0, BackKeyboard)
                      ELSE Payload("channel_found", escape_markdown(name), 0, BackKeyboard))
                : t \in tried }

\* search_channel that asks get_chat a second time when the first call raised
search_channel_retries(R, key, channel_name) ==
    LET name == StripAt(channel_name)
        query == Payload("", <<"@">> \o name, 0, <<>>)
        first == Await(R, "get_chat", query)
        tried == Store(Returned(first) \cup Await(Caught(first), "get_chat", query), key, Absent)
    IN  UNION { Await({[t EXCEPT !.raised = FALSE]}, "reply_text",
                      IF t.raised
                      THEN Payload("channel_not_found", escape_markdown(name), 0, BackKeyboard)
                      ELSE Payload("channel_found", escape_markdown(name), 0, BackKeyboard))
                : t \in tried }

\* main.py:330-370
search_channel(R, key, channel_name) ==
    LET name == StripAt(channel_name)
        tried == Store(Await(R, "get_chat", Payload("", <<"@">> \o name, 0, <<>>)), key, Absent)
    IN  UNION { Await({[t EXCEPT !.raised = FALSE]}, "reply_text",
                      IF t.raised
                      THEN Payload("channel_not_found", escape_markdown(name), 0, BackKeyboard)
                      ELSE Payload("channel_found", escape_markdown(name), 0, BackKeyboard))
                : t \in tried }

\* search_group that clears the state in the except block as well
search_group_clears_on_failure(R, key, group_name) ==
    LET name == StripAt(group_name)
        tried == Await(R, "get_chat", Payload("", <<"@">> \o name, 0, <<>>))
    IN  UNION { Await(Store({[t EXCEPT !.raised = FALSE]}, key, Absent), "reply_text",
                      IF t.raised
                      THEN Payload("group_not_found", escape_markdown(name), 0, BackKeyboard)
                      ELSE Payload("group_found", escape_markdown(name), 0, BackKeyboard))
                : t \in tried }

\* main.py:372-412
search_group(R, key, group_name) ==
    LET name == StripAt(group_name)
        tried == Store(Await(R, "get_chat", Payload("", <<"@">> \o name, 0, <<>>)), key, Absent)
    IN  UNION { Await({[t EXCEPT !.raised = FALSE]}, "reply_text",
                      IF t.raised
                      THEN Payload("group_not_found", escape_markdown(name), 0, BackKeyboard)
                      ELSE Payload("group_found", escape_markdown(name), 0, BackKeyboard))
                : t \in tried }

\* handle_text_message reading the state with a default instead of testing
\* membership of the key
handle_text_message_default_state(st, user, chat, text, m) ==
    LET key == <<chat, user>>
        checked == AwaitIsSubscribed({Begin(st)}, m)
    IN  IF ~is_subscribed(m) THEN checked
        ELSE IF st[key] = "waiting_user_search" THEN search_user(checked, key, text)
        ELSE IF st[key] = "waiting_group_search" THEN search_group(checked, key, text)
        ELSE search_channel(checked, key, text)

\* handle_text_message without the subscription check of lines 277-279
handle_text_message_unchecked(st, user, chat, text, m) ==
    LET key == <<chat, user>>
        checked == AwaitIsSubscribed({Begin(st)}, m)
    IN  IF st[key] = Absent THEN checked
        ELSE IF st[key] = "waiting_user_search" THEN search_user(checked, key, text)
        ELSE IF st[key] = "waiting_channel_search" THEN search_channel(checked, key, text)
        ELSE search_group(checked, key, text)

\* handle_text_message that reads user_search_states first and calls
\* is_subscribed only for a pair with a pending search
handle_text_message_lookup_first(st, user, chat, text, m) ==
    LET key == <<chat, user>>
        checked == AwaitIsSubscribed({Begin(st)}, m)
    IN  IF st[key] = Absent THEN {Begin(st)}
        ELSE IF ~is_subscribed(m) THEN checked
        ELSE IF st[key] = "waiting_user_search" THEN search_user(checked, key, text)
        ELSE IF st[key] = "waiting_channel_search" THEN search_channel(checked, key, text)
        ELSE search_group(checked, key, text)

\* main.py:269-290, after the guards of lines 266 and 274
handle_text_message(st, user, chat, text, m) ==
    LET key == <<chat, user>>
        checked == AwaitIsSubscribed({Begin(st)}, m)
    IN  IF ~is_subscribed(m) THEN checked
        ELSE IF st[key] = Absent THEN checked
        ELSE IF st[key] = "waiting_user_search" THEN search_user(checked, key, text)
        ELSE IF st[key] = "waiting_channel_search" THEN search_channel(checked, key, text)
        ELSE IF st[key] = "waiting_group_search" THEN search_group(checked, key, text)
        ELSE checked

----------------------------------------------------------------------------
(* The state machine.  ev is the update being handled together with what   *)
(* its handler did; the Application takes the next update only when the    *)
(* handler of the previous one has returned (UpdateDone).                  *)

Event(kind, data, user, chat, has_message, r) ==
    [kind |-> kind, data |-> data, user |-> user, chat |-> chat,
     has_message |-> has_message, status |-> r.status, out |-> r.out, raised |-> r.raised]

NoEvent == Event("none", "", 0, None, FALSE, Begin(<<>>))

Idle == ev = NoEvent

\* every combination of the three environment variables
Configs == ChannelIds \X ChannelUrls \X ImageUrls

\* the deployments the full state machine is explored under: no channel;
\* a public handle; a private id with a subscribe URL and a warning image
Deployments ==
    { << <<>>, <<>>, <<>> >>,
      << <<"@", "c">>, <<>>, PLACEHOLDER >>,
      << <<"-", "1">>, HTTPS \o <<"x">>, HTTPS \o <<"w">> >> }

\* main.py:27-30: the environment is read once
Environment(c) ==
    /\ CHANNEL_ID = c[1]
    /\ CHANNEL_URL = c[2]
    /\ WARNING_IMAGE_URL = c[3]

\* module level of main.py, lines 27-36
Init ==
    /\ \E c \in Deployments : Environment(c)
    /\ user_count = 0
    /\ user_search_states = [k \in Keys |-> Absent]
    /\ ev = NoEvent
    /\ tasks = <<>>

\* a /start command (an edited command has no update.message: line 74 returns)
StartCommand ==
    /\ user_count < MaxStarts
    /\ \E user \in Users, has_message \in BOOLEAN, m \in Answers :
          IF ~has_message
          THEN /\ ev' = Event("start", "", user, None, FALSE, Begin(<<>>))
               /\ UNCHANGED <<user_count, user_search_states>>
          ELSE \E r \in start(user_search_states, m, user_count + 1) :
                  /\ user_count' = user_count + 1
                  /\ user_search_states' = r.st
                  /\ ev' = Event("start", "", user, None, TRUE, r)
    /\ UNCHANGED <<tasks, CHANNEL_ID, CHANNEL_URL, WARNING_IMAGE_URL>>

\* a /check_subscription command
CheckSubscriptionCommand ==
    /\ \E user \in Users, has_message \in BOOLEAN, m \in Answers :
          \E r \in check_subscription(user_search_states, has_message, m) :
              /\ user_search_states' = r.st
              /\ ev' = Event("check_subscription", "", user, None, has_message, r)
    /\ UNCHANGED <<tasks, CHANNEL_ID, CHANNEL_URL, WARNING_IMAGE_URL, user_count>>

Start == Idle /\ StartCommand

CheckSubscription == Idle /\ CheckSubscriptionCommand

\* a press of an inline button
ButtonPress ==
    /\ Idle
    /\ \E user \in Users, chat \in Chats \cup {None}, data \in Tokens, m \in Answers :
          \E r \in button_handler(user_search_states, user, chat, data, m) :
              /\ user_search_states' = r.st
              /\ ev' = Event("button", data, user, chat, chat # None, r)
    /\ UNCHANGED <<tasks, CHANNEL_ID, CHANNEL_URL, WARNING_IMAGE_URL, user_count>>

\* a text message that is not a command (channel posts and edits have no
\* update.message: line 266 returns)
TextMessage ==
    /\ Idle
    /\ \E user \in Users, chat \in Chats, has_message \in BOOLEAN, text \in Texts, m \in Answers :
          IF ~has_message
          THEN /\ ev' = Event("text", "", user, chat, FALSE, Begin(<<>>))
               /\ UNCHANGED user_search_states
          ELSE \E r \in handle_text_message(user_search_states, user, chat, text, m) :
                  /\ user_search_states' = r.st
                  /\ ev' = Event("text", "", user, chat, TRUE, r)
    /\ UNCHANGED <<tasks, CHANNEL_ID, CHANNEL_URL, WARNING_IMAGE_URL, user_count>>

\* the handler has returned (or its exception was logged by the Application)
UpdateDone ==
    /\ ~Idle
    /\ ev' = NoEvent
    /\ UNCHANGED <<tasks, CHANNEL_ID, CHANNEL_URL, WARNING_IMAGE_URL, user_count, user_search_states>>

Next == Start \/ CheckSubscription \/ ButtonPress \/ TextMessage \/ UpdateDone

Spec == Init /\ [][Next]_vars

----------------------------------------------------------------------------
(* The two command handlers under every configuration.  The session store  *)
(* starts empty or with one pending search, as one button press by a       *)
(* subscribed user leaves it; here ev is kept from one command to the next. *)

OnePending ==
    { [k \in Keys |-> Absent] } \cup
    { [[k \in Keys |-> Absent] EXCEPT ![p] = "waiting_channel_search"] : p \in Keys }

InitCommands ==
    /\ \E c \in Configs : Environment(c)
    /\ user_count = 0
    /\ user_search_states \in OnePending
    /\ ev = NoEvent
    /\ tasks = <<>>

NextCommands == StartCommand \/ CheckSubscriptionCommand

SpecCommands == InitCommands /\ [][NextCommands]_vars

----------------------------------------------------------------------------
(* Reading an event *)

\* the calls of event e whose name is in names, in order
CallsOf(e, names) == SelectSeq(e.out, LAMBDA c : c.call \in names)

\* the calls that put something in front of the user in the chat
MessageCalls == {"reply_text", "reply_photo", "send_message", "edit_message_text", "delete"}

GatedTokens == {"search_user", "search_channel", "search_group", "search_back"}

EventKey(e) == <<e.chat, e.user>>

----------------------------------------------------------------------------
(* C1 *)

\* C1: a press of search_user, search_channel, search_group or search_back for
\* which is_subscribed answers False leaves user_search_states as it was and
\* edits, deletes and sends no message: apart from the membership query every
\* call is a callback answer, the first of them the alert, and when no answer
\* raises the answers are exactly the alert and the plain acknowledgment.
C1_GatedPressNotMember ==
    [][ (ev'.kind = "button" /\ ev'.data \in GatedTokens /\ ev'.status = "NOT_MEMBER") =>
          LET answers == CallsOf(ev', {"answer"})
          IN  /\ user_search_states' = user_search_states
              /\ CallsOf(ev', MessageCalls \cup {"get_chat"}) = <<>>
              /\ \A i \in DOMAIN ev'.out : ev'.out[i].call \in {"get_chat_member", "answer"}
              /\ Len(answers) >= 1
              /\ answers[1].payload = GateAlert
              /\ (\A i \in DOMAIN answers : answers[i].ok) =>
                    answers = << ApiCall("answer", GateAlert, TRUE, ""),
                                 ApiCall("answer", PlainAck, TRUE, "") >>
      ]_vars

\* a gated press was refused while the pressing pair had a search pending
C1_Witness ==
    /\ ev.kind = "button"
    /\ ev.data = "search_group"
    /\ ev.status = "NOT_MEMBER"
    /\ ev.chat # None
    /\ user_search_states[EventKey(ev)] = "waiting_user_search"
    /\ CallsOf(ev, {"answer"}) # <<>>

----------------------------------------------------------------------------
(* C2 *)

\* C2: a text message from a pair with no entry in user_search_states makes no
\* reply and no directory lookup, raises nothing and leaves user_search_states
\* unchanged, whether is_subscribed answers True or False.
C2_TextWithoutSession ==
    [][ (ev'.kind = "text" /\ ev'.has_message
         /\ user_search_states[EventKey(ev')] = Absent) =>
          /\ user_search_states' = user_search_states
          /\ CallsOf(ev', MessageCalls \cup {"get_chat", "answer"}) = <<>>
          /\ ~ev'.raised
      ]_vars

\* a subscribed user without a session wrote while another pair had a search pending
C2_Witness ==
    /\ ev.kind = "text"
    /\ ev.has_message
    /\ ev.status = "MEMBER"
    /\ user_search_states[EventKey(ev)] = Absent
    /\ CallsOf(ev, MessageCalls) = <<>>
    /\ \E k \in Keys : user_search_states[k] # Absent

----------------------------------------------------------------------------
(* C3 *)

\* C3: a text message from a pair with a pending search, handled while
\* is_subscribed answers False, is dropped: no reply, no directory lookup, no
\* exception, and user_search_states is unchanged (the search stays pending).
C3_TextNotMemberDropped ==
    [][ (ev'.kind = "text" /\ ev'.has_message /\ ev'.status = "NOT_MEMBER"
         /\ user_search_states[EventKey(ev')] \in SearchStates) =>
          /\ user_search_states' = user_search_states
          /\ CallsOf(ev', MessageCalls \cup {"get_chat", "answer"}) = <<>>
          /\ Len(ev'.out) = 1
          /\ ev'.out[1].call = "get_chat_member"
          /\ ~ev'.raised
      ]_vars

\* a text of a pair with a pending channel search was dropped
C3_Witness ==
    /\ ev.kind = "text"
    /\ ev.has_message
    /\ ev.status = "NOT_MEMBER"
    /\ user_search_states[EventKey(ev)] = "waiting_channel_search"
    /\ Len(ev.out) = 1

----------------------------------------------------------------------------
(* C4 *)

\* the reply a successful lookup of the given category is answered with
FoundText(state) ==
    IF state = "waiting_channel_search" THEN "channel_found" ELSE "group_found"

NotFoundText(state) ==
    IF state = "waiting_channel_search" THEN "channel_not_found" ELSE "group_not_found"

\* the get_chat calls of an event
Lookups(e) == CallsOf(e, {"get_chat"})

\* C4: when a subscribed user with a pending channel or group search sends text
\* and get_chat returns, the entry of that (chat, user) is gone afterwards and
\* the handler makes exactly one reply call: the found text of that category
\* with the single search_back button.
C4_SuccessfulSearch ==
    [][ (ev'.kind = "text" /\ ev'.status = "MEMBER"
         /\ user_search_states[EventKey(ev')] \in {"waiting_channel_search", "waiting_group_search"}
         /\ Lookups(ev') # <<>> /\ Lookups(ev')[1].ok) =>
          LET replies == CallsOf(ev', MessageCalls)
          IN  /\ user_search_states' = [user_search_states EXCEPT ![EventKey(ev')] = Absent]
              /\ Len(Lookups(ev')) = 1
              /\ Len(replies) = 1
              /\ replies[1].call = "reply_text"
              /\ replies[1].payload.text = FoundText(user_search_states[EventKey(ev')])
              /\ replies[1].payload.keyboard = <<CallbackButton("back", "search_back")>>
      ]_vars

\* a group was found for user 2 and the result was delivered
C4_Witness ==
    /\ ev.kind = "text"
    /\ ev.user = 2
    /\ ev.status = "MEMBER"
    /\ Lookups(ev) # <<>>
    /\ Lookups(ev)[1].ok
    /\ \E i \in DOMAIN ev.out : ev.out[i].payload.text = "group_found" /\ ev.out[i].ok
    /\ user_search_states[EventKey(ev)] = Absent

----------------------------------------------------------------------------
(* C5 *)

\* C5 as claimed: after a text message of a subscribed user that ran a search
\* (a lookup or a reply was made), the entry of that (chat, user) is absent.
C5_ClearedAfterEverySearch ==
    (ev.kind = "text" /\ ev.status = "MEMBER"
     /\ CallsOf(ev, MessageCalls \cup {"get_chat"}) # <<>>) =>
        user_search_states[EventKey(ev)] = Absent

\* C5 amended: when get_chat raises, user_search_states is left as it was (the
\* search stays pending) and one not-found reply with the search_back button is
\* made; the entry is removed when get_chat returns and by every user search.
C5_ClearedOnlyOnSuccess ==
    [][ (ev'.kind = "text" /\ ev'.status = "MEMBER"
         /\ user_search_states[EventKey(ev')] \in SearchStates) =>
          LET before == user_search_states[EventKey(ev')]
              replies == CallsOf(ev', MessageCalls)
          IN  IF before = "waiting_user_search"
              THEN /\ Lookups(ev') = <<>>
                   /\ user_search_states' = [user_search_states EXCEPT ![EventKey(ev')] = Absent]
              ELSE /\ Len(Lookups(ev')) = 1
                   /\ Lookups(ev')[1].ok =>
                        user_search_states' = [user_search_states EXCEPT ![EventKey(ev')] = Absent]
                   /\ ~Lookups(ev')[1].ok =>
                        /\ user_search_states' = user_search_states
                        /\ Len(replies) = 1
                        /\ replies[1].payload.text = NotFoundText(before)
                        /\ replies[1].payload.keyboard = BackKeyboard
      ]_vars

\* a group lookup failed, the not-found reply was delivered and the search is
\* still pending
C5_Witness ==
    /\ ev.kind = "text"
    /\ ev.status = "MEMBER"
    /\ Lookups(ev) # <<>>
    /\ ~Lookups(ev)[1].ok
    /\ \E i \in DOMAIN ev.out : ev.out[i].payload.text = "group_not_found" /\ ev.out[i].ok
    /\ user_search_states[EventKey(ev)] = "waiting_group_search"

----------------------------------------------------------------------------
(* C6 *)

\* C6 as claimed: after a search_back press on a message, the entry of the
\* pressing (chat, user) is absent, whatever is_subscribed answers.
C6_BackClearsUnconditionally ==
    (ev.kind = "button" /\ ev.data = "search_back" /\ ev.chat # None) =>
        user_search_states[EventKey(ev)] = Absent

\* C6 amended: a search_back press on a message removes the entry of the
\* pressing (chat, user) when is_subscribed answers True, also when the edit
\* that follows raises; when it answers False user_search_states is unchanged.
C6_BackClearsForMembers ==
    [][ (ev'.kind = "button" /\ ev'.data = "search_back" /\ ev'.chat # None) =>
          IF ev'.status = "MEMBER"
          THEN user_search_states' = [user_search_states EXCEPT ![EventKey(ev')] = Absent]
          ELSE user_search_states' = user_search_states
      ]_vars

\* a subscribed user pressed back, the edit raised, and no entry is left while
\* the other user's search is still pending
C6_Witness ==
    /\ ev.kind = "button"
    /\ ev.data = "search_back"
    /\ ev.chat # None
    /\ ev.status = "MEMBER"
    /\ \E i \in DOMAIN ev.out : ev.out[i].call = "edit_message_text" /\ ~ev.out[i].ok
    /\ user_search_states[EventKey(ev)] = Absent
    /\ \E k \in Keys : user_search_states[k] # Absent

----------------------------------------------------------------------------
(* C7 *)

\* the get_chat_member calls of an event
MemberQueries(e) == CallsOf(e, {"get_chat_member"})

\* C7: whenever a handler has called is_subscribed: without CHANNEL_ID the
\* result is MEMBER and get_chat_member was not called; with CHANNEL_ID it was
\* called once, the result is MEMBER exactly when the call returned member,
\* administrator or creator, NOT_MEMBER for left, kicked, restricted and for a
\* call that raised, and the handler went on after a call that raised (an
\* exception that leaves the handler comes from a later call).
C7_OracleFunction ==
    ev.status # "NONE" =>
        IF CHANNEL_ID = <<>>
        THEN /\ ev.status = "MEMBER"
             /\ MemberQueries(ev) = <<>>
        ELSE LET q == MemberQueries(ev)
             IN  /\ Len(q) = 1
                 /\ q[1].ok <=> q[1].res # "error"
                 /\ q[1].res \in {"member", "administrator", "creator"} => ev.status = "MEMBER"
                 /\ q[1].res \in {"left", "kicked", "restricted", "error"} => ev.status = "NOT_MEMBER"
                 /\ ev.raised => ev.out[Len(ev.out)].call # "get_chat_member"

\* get_chat_member raised during /check_subscription and the prompt for
\* unsubscribed users was delivered
C7_Witness ==
    /\ ev.kind = "check_subscription"
    /\ CHANNEL_ID # <<>>
    /\ MemberQueries(ev) # <<>>
    /\ ~MemberQueries(ev)[1].ok
    /\ ev.status = "NOT_MEMBER"
    /\ ~ev.raised
    /\ ev.out[Len(ev.out)].payload.text = "subscription_required"

----------------------------------------------------------------------------
(* C8 *)

\* the payloads an event put (or tried to put) in the chat
Rendered(e) == { e.out[i].payload : i \in { j \in DOMAIN e.out : e.out[j].call \in MessageCalls } }

\* C8: a /check_subscription command changes neither user_search_states nor
\* user_count, and when it directly follows a /check_subscription command of
\* the same user, of the same kind of update (new or edited message) and with
\* the same result of is_subscribed, it renders the same payload (text and
\* keyboard) as that one did; a command sent as a new message renders one.
C8_CheckSubscriptionIdempotent ==
    [][ ev'.kind = "check_subscription" =>
          /\ user_search_states' = user_search_states
          /\ user_count' = user_count
          /\ ev'.has_message => Cardinality(Rendered(ev')) = 1
          /\ (ev.kind = "check_subscription" /\ ev.user = ev'.user
              /\ ev.has_message = ev'.has_message /\ ev.status = ev'.status) =>
                Rendered(ev') = Rendered(ev)
      ]_vars

\* /check_subscription of an unsubscribed user after a /start, with a search
\* pending: the photo could not be sent and the text prompt was
C8_Witness ==
    /\ ev.kind = "check_subscription"
    /\ ev.has_message
    /\ ev.status = "NOT_MEMBER"
    /\ user_count > 0
    /\ \E k \in Keys : user_search_states[k] # Absent
    /\ Len(ev.out) = 3
    /\ ev.out[2].call = "reply_photo" /\ ~ev.out[2].ok
    /\ ev.out[3].call = "reply_text" /\ ev.out[3].ok

----------------------------------------------------------------------------
(* C9 *)

\* C9 as claimed: when button_handler has handled a press, the callback query
\* has been answered and no exception has left the handler.
C9_PressAlwaysAcknowledged ==
    ev.kind = "button" =>
        /\ ~ev.raised
        /\ \E i \in DOMAIN ev.out : ev.out[i].call = "answer" /\ ev.out[i].ok

----------------------------------------------------------------------------
(* C10 *)

\* C10 as claimed: when button_handler edits the pressed message and
\* edit_message_text raises, the handler next deletes the message and sends the
\* same payload with send_message, and the failure notice is not what the
\* press is answered with.
C10_EditFailureFallsBack ==
    (ev.kind = "button" /\ ev.chat # None) =>
        \A i \in DOMAIN ev.out :
            (ev.out[i].call = "edit_message_text" /\ ~ev.out[i].ok) =>
                /\ Len(ev.out) >= i + 2
                /\ ev.out[i + 1].call = "delete"
                /\ ev.out[i + 2].call = "send_message"
                /\ ev.out[i + 2].payload = ev.out[i].payload
                /\ ev.out[i + 2].ok => CallsOf(ev, {"answer"})[1].payload # FailureNotice

----------------------------------------------------------------------------
(* C11 *)

\* the payloads of the prompt for unsubscribed users an event rendered
Prompts(e) == { p \in Rendered(e) : p.text = "subscription_required" }

\* C11 as claimed: every prompt for unsubscribed users ends with the recheck
\* button (callback_data check_subscription); when CHANNEL_URL is set it has a
\* subscribe button for it (the URL itself, or https://t.me/h when it is
\* written as the handle @h); otherwise, when CHANNEL_ID is a handle @h, a
\* subscribe button for https://t.me/h; otherwise no subscribe button and the
\* channel id in the text.
C11_SubscribeButtonPriority ==
    \A p \in Prompts(ev) :
        LET kb == p.keyboard
        IN  /\ kb # <<>>
            /\ kb[Len(kb)] = CallbackButton("recheck", "check_subscription")
            /\ IF CHANNEL_URL # <<>>
               THEN /\ Len(kb) = 2
                    /\ kb[1].url = IF StartsWith(CHANNEL_URL, <<"@">>)
                                   THEN TME \o Tail1(CHANNEL_URL)
                                   ELSE CHANNEL_URL
               ELSE IF StartsWith(CHANNEL_ID, <<"@">>)
               THEN /\ Len(kb) = 2
                    /\ kb[1].url = TME \o Tail1(CHANNEL_ID)
               ELSE /\ Len(kb) = 1
                    /\ p.arg = CHANNEL_ID

----------------------------------------------------------------------------
(* C12 *)

\* C12 as claimed: when the delivery of the warning image fails, the prompt
\* is sent next as plain text with the same text and buttons, and the
\* handler that rendered it ends without an exception, also when that
\* plain-text send fails.
C12_PromptNeverRaises ==
    \A i \in DOMAIN ev.out :
        (ev.out[i].call = "reply_photo" /\ ~ev.out[i].ok)
            => /\ i < Len(ev.out)
               /\ ev.out[i + 1].call = "reply_text"
               /\ ev.out[i + 1].payload = ev.out[i].payload
               /\ ~ev.raised

----------------------------------------------------------------------------
(* C13 *)

\* the calls of a /start after its welcome message and its membership query
AfterWelcome(e) ==
    SubSeq(e.out, IF CHANNEL_ID = <<>> THEN 2 ELSE 3, Len(e.out))

\* what a /start renders for the result of is_subscribed
RenderFor(status) ==
    IF status = "MEMBER" THEN MainMenu ELSE SubscriptionRequired

----------------------------------------------------------------------------
(* C14 *)

\* C14: a press of the check_subscription button for which is_subscribed
\* answers False edits, deletes and sends no message and its first callback
\* answer is the alert; when is_subscribed answers True the first message
\* call is edit_message_text with the main menu, it is the only one when it
\* returns, and when it raises on a pressed message the message is deleted
\* and the main menu is sent to the chat instead.
C14_RecheckPress ==
    (ev.kind = "button" /\ ev.data = "check_subscription") =>
        LET msgs == CallsOf(ev, MessageCalls)
            answers == CallsOf(ev, {"answer"})
        IN  IF ev.status = "NOT_MEMBER"
            THEN /\ msgs = <<>>
                 /\ answers # <<>>
                 /\ answers[1].payload = RecheckAlert
            ELSE /\ ev.status = "MEMBER"
                 /\ msgs # <<>>
                 /\ msgs[1].call = "edit_message_text"
                 /\ msgs[1].payload = MainMenu
                 /\ msgs[1].ok => Len(msgs) = 1
                 /\ (~msgs[1].ok /\ ev.chat # None) =>
                       /\ Len(msgs) = 3
                       /\ msgs[2].call = "delete"
                       /\ msgs[3].call = "send_message"
                       /\ msgs[3].payload = MainMenu

\* an unsubscribed user pressed the recheck button on a message and got the alert
C14_Witness ==
    /\ ev.kind = "button"
    /\ ev.data = "check_subscription"
    /\ ev.chat # None
    /\ ev.status = "NOT_MEMBER"
    /\ MemberQueries(ev) # <<>>
    /\ CallsOf(ev, {"answer"})[1] = ApiCall("answer", RecheckAlert, TRUE, "")
    /\ ~ev.raised

----------------------------------------------------------------------------
(* C15 *)

\* the texts of the replies a pending state is answered with
ReplyTexts(state) ==
    IF state = "waiting_user_search" THEN {"user_search_limitation"}
    ELSE {FoundText(state), NotFoundText(state)}

\* C15: a press of search_user, search_channel or search_group for which
\* is_subscribed answers True sets the entry of the pressing (chat, user) to
\* the state of the pressed button, whatever the entry was before and whether
\* or not the edit that follows succeeds, and changes no other entry; and a
\* text message of a subscribed user is answered according to the entry its
\* (chat, user) has at that moment: the user notice without a lookup for
\* waiting_user_search, one lookup and a channel reply for
\* waiting_channel_search, one lookup and a group reply for
\* waiting_group_search.
C15_PressSetsCategory ==
    [][ /\ (ev'.kind = "button" /\ ev'.status = "MEMBER"
            /\ ev'.data \in {"search_user", "search_channel", "search_group"}) =>
              user_search_states' =
                  [user_search_states EXCEPT ![EventKey(ev')] = WaitingState(ev'.data)]
        /\ (ev'.kind = "text" /\ ev'.status = "MEMBER"
            /\ user_search_states[EventKey(ev')] # Absent) =>
              LET state == user_search_states[EventKey(ev')]
              IN  /\ Rendered(ev') # {}
                  /\ \A p \in Rendered(ev') : p.text \in ReplyTexts(state)
                  /\ Len(Lookups(ev')) = IF state = "waiting_user_search" THEN 0 ELSE 1
      ]_vars

\* a subscribed user pressed search_group on a message whose edit then
\* failed, while the other user had a search pending: the state is stored
C15_Witness ==
    /\ ev.kind = "button"
    /\ ev.data = "search_group"
    /\ ev.status = "MEMBER"
    /\ ev.chat # None
    /\ \E i \in DOMAIN ev.out : ev.out[i].call = "edit_message_text" /\ ~ev.out[i].ok
    /\ user_search_states[EventKey(ev)] = "waiting_group_search"
    /\ \E k \in Keys \ {EventKey(ev)} : user_search_states[k] = "waiting_user_search"

----------------------------------------------------------------------------
(* C16 *)

\* C16 as claimed: a text message of a (chat, user) with no entry in
\* user_search_states makes no get_chat_member call.
C16_NoQueryWithoutSession ==
    [][ (ev'.kind = "text" /\ ev'.has_message
         /\ user_search_states[EventKey(ev')] = Absent) =>
          MemberQueries(ev') = <<>>
      ]_vars

\* C16, amended: every handled text message evaluates is_subscribed before
\* user_search_states is read: with CHANNEL_ID set its first call is the one
\* get_chat_member call it makes, whether or not the (chat, user) has an
\* entry, and a message of a pair without an entry makes that call and no
\* other; without CHANNEL_ID no get_chat_member call is made.
C16_QueryBeforeLookup ==
    [][ (ev'.kind = "text" /\ ev'.has_message) =>
          /\ ev'.status # "NONE"
          /\ IF CHANNEL_ID = <<>>
             THEN MemberQueries(ev') = <<>>
             ELSE /\ Len(MemberQueries(ev')) = 1
                  /\ ev'.out[1].call = "get_chat_member"
          /\ user_search_states[EventKey(ev')] = Absent =>
                /\ Len(ev'.out) = Len(MemberQueries(ev'))
                /\ user_search_states' = user_search_states
      ]_vars

\* a subscribed user with no search pending wrote a message: the membership
\* query is the only call
C16_Witness ==
    /\ ev.kind = "text"
    /\ ev.has_message
    /\ ev.status = "MEMBER"
    /\ CHANNEL_ID # <<>>
    /\ user_search_states[EventKey(ev)] = Absent
    /\ Len(ev.out) = 1
    /\ ev.out[1].call = "get_chat_member"

----------------------------------------------------------------------------
(* C17 *)

\* C17: a text message of a subscribed user whose (chat, user) has an entry
\* makes exactly one reply call, a reply_text with the single search_back
\* button.  For waiting_user_search no get_chat call is made, the reply is
\* the fixed notice and the entry is removed.  For waiting_channel_search
\* and waiting_group_search exactly one get_chat call is made, before the
\* reply; when it raises it is not repeated and the reply is the not-found
\* text of the category.
C17_OneLookupOneReply ==
    [][ (ev'.kind = "text" /\ ev'.status = "MEMBER"
         /\ user_search_states[EventKey(ev')] # Absent) =>
          LET state == user_search_states[EventKey(ev')]
              replies == CallsOf(ev', MessageCalls \cup {"answer"})
              after == SubSeq(ev'.out, Len(MemberQueries(ev')) + 1, Len(ev'.out))
          IN  /\ Len(replies) = 1
              /\ replies[1].call = "reply_text"
              /\ replies[1].payload.keyboard = BackKeyboard
              /\ IF state = "waiting_user_search"
                 THEN /\ Lookups(ev') = <<>>
                      /\ replies[1].payload.text = "user_search_limitation"
                      /\ user_search_states'[EventKey(ev')] = Absent
                 ELSE /\ Len(Lookups(ev')) = 1
                      /\ after = Lookups(ev') \o replies
                      /\ ~Lookups(ev')[1].ok => replies[1].payload.text = NotFoundText(state)
      ]_vars

\* the lookup of a pending channel search failed: one get_chat call, then
\* the not-found reply with the back button
C17_Witness ==
    /\ ev.kind = "text"
    /\ ev.status = "MEMBER"
    /\ user_search_states[EventKey(ev)] = "waiting_channel_search"
    /\ Len(Lookups(ev)) = 1
    /\ ~Lookups(ev)[1].ok
    /\ ev.out[Len(ev.out)].call = "reply_text"
    /\ ev.out[Len(ev.out)].payload.text = "channel_not_found"
    /\ ev.out[Len(ev.out)].payload.keyboard = BackKeyboard
    /\ ev.out[Len(ev.out)].ok

----------------------------------------------------------------------------
(* C18 *)
(* The start handler as a coroutine: one task per /start update, suspended  *)
(* at each await and resumed in any order.  The code between two awaits     *)
(* runs without interruption (one event loop, one thread).                  *)

Tasks == 1 .. MaxStarts

\* an update the Application has not handed to start yet
NotStarted == [pc |-> "update", welcome_text |-> NoPayload, run |-> Begin(<<>>)]

InitTasks ==
    /\ \E c \in Deployments : Environment(c)
    /\ user_count = 0
    /\ user_search_states = [k \in Keys |-> Absent]
    /\ ev = NoEvent
    /\ tasks = [t \in Tasks |-> NotStarted]

\* WelcomeSent that formats the welcome text when the task is resumed
WelcomeSent_formats_late(t) ==
    /\ tasks[t].pc = "reply_text"
    /\ \E r \in Await({tasks[t].run}, "reply_text", WelcomeText(user_count)) :
          tasks' = [tasks EXCEPT ![t].run = r,
                                 ![t].pc = IF r.raised THEN "returned" ELSE "is_subscribed"]
    /\ UNCHANGED <<CHANNEL_ID, CHANNEL_URL, WARNING_IMAGE_URL, user_count, user_search_states, ev>>

\* main.py:72-88: the guard of line 74, user_count += 1 and the f-string that
\* reads user_count, up to the await of line 90
StartTask(t) ==
    /\ tasks[t].pc = "update"
    /\ \E has_message \in BOOLEAN :
          IF ~has_message
          THEN /\ tasks' = [tasks EXCEPT ![t].pc = "returned"]
               /\ UNCHANGED user_count
          ELSE /\ user_count' = user_count + 1
               /\ tasks' = [tasks EXCEPT ![t] = [pc |-> "reply_text",
                                                 welcome_text |-> WelcomeText(user_count + 1),
                                                 run |-> Begin(user_search_states)]]
    /\ UNCHANGED <<CHANNEL_ID, CHANNEL_URL, WARNING_IMAGE_URL, user_search_states, ev>>

\* main.py:90: reply_text(welcome_text) returns or raises
WelcomeSent(t) ==
    /\ tasks[t].pc = "reply_text"
    /\ \E r \in Await({tasks[t].run}, "reply_text", tasks[t].welcome_text) :
          tasks' = [tasks EXCEPT ![t].run = r,
                                 ![t].pc = IF r.raised THEN "returned" ELSE "is_subscribed"]
    /\ UNCHANGED <<CHANNEL_ID, CHANNEL_URL, WARNING_IMAGE_URL, user_count, user_search_states, ev>>

\* main.py:93 with 52-70: is_subscribed returns
MembershipAnswered(t) ==
    /\ tasks[t].pc = "is_subscribed"
    /\ \E m \in Answers :
          \E r \in AwaitIsSubscribed({tasks[t].run}, m) :
              tasks' = [tasks EXCEPT ![t].run = r, ![t].pc = "render"]
    /\ UNCHANGED <<CHANNEL_ID, CHANNEL_URL, WARNING_IMAGE_URL, user_count, user_search_states, ev>>

\* main.py:93-96: the renderer chosen by the result of is_subscribed returns
\* or raises
RenderDone(t) ==
    /\ tasks[t].pc = "render"
    /\ \E r \in (IF tasks[t].run.status = "MEMBER"
                 THEN show_subscribed_message({tasks[t].run}, TRUE)
                 ELSE show_subscription_required({tasks[t].run}, TRUE)) :
          tasks' = [tasks EXCEPT ![t].run = r, ![t].pc = "returned"]
    /\ UNCHANGED <<CHANNEL_ID, CHANNEL_URL, WARNING_IMAGE_URL, user_count, user_search_states, ev>>

NextTasks ==
    \E t \in Tasks :
        StartTask(t) \/ WelcomeSent(t) \/ MembershipAnswered(t) \/ RenderDone(t)

SpecTasks == InitTasks /\ [][NextTasks]_vars

\* the tasks whose update passed the guard of line 74
Handled == { t \in Tasks : tasks[t].welcome_text # NoPayload }

\* the ordinals formatted into the welcome texts
Ordinals == { tasks[t].welcome_text.ordinal : t \in Handled }

\* C18: user_count is 0 at the start, a step never decreases it, and it
\* grows by exactly one in the step in which a /start passes the guard and
\* in no other; at every moment it equals the number of handled /start
\* commands, the ordinals of their welcome texts are exactly 1..user_count,
\* no two of them equal, and the welcome message a task sends carries the
\* ordinal formatted for it, in whatever order the tasks are resumed.
C18_NoLostIncrement ==
    /\ user_count = 0
    /\ [][ /\ user_count' = user_count + Cardinality(Handled' \ Handled)
           /\ Cardinality(Handled' \ Handled) <= 1
           /\ Handled \subseteq Handled'
           /\ user_count' = Cardinality(Handled')
           /\ Ordinals' = 1 .. user_count'
           /\ \A t \in Handled' :
                 /\ \A u \in Handled' \ {t} :
                       tasks'[t].welcome_text.ordinal # tasks'[u].welcome_text.ordinal
                 /\ tasks'[t].run.out # <<>> =>
                       tasks'[t].run.out[1].payload = tasks'[t].welcome_text
         ]_vars

\* two /start handlers were suspended at the same time and the one that
\* started second was resumed first: welcome number 2 is delivered while
\* welcome number 1 is still being sent
C18_Witness ==
    \E t \in Tasks, u \in Tasks :
        /\ tasks[t].pc = "reply_text"
        /\ tasks[t].welcome_text = WelcomeText(1)
        /\ tasks[u].pc = "returned"
        /\ tasks[u].run.out # <<>>
        /\ tasks[u].run.out[1] = ApiCall("reply_text", WelcomeText(2), TRUE, "")
        /\ user_count = 2

----------------------------------------------------------------------------
(* C19 *)

\* C19: a step changes the entry of a (chat, user) in user_search_states only
\* when the update handled in that step is a button press or a text message
\* of that user in that chat, and it removes an entry only when that update
\* is a text message or a search_back press; the entries of every other
\* (chat, user) are the same after the step as before it.
C19_OnlyOwnPairWrites ==
    [][ \A k \in Keys :
          user_search_states'[k] # user_search_states[k] =>
              /\ k = EventKey(ev')
              /\ ev'.kind \in {"button", "text"}
              /\ user_search_states'[k] = Absent =>
                    \/ ev'.kind = "text"
                    \/ ev'.kind = "button" /\ ev'.data = "search_back"
      ]_vars

\* the text of one user consumed that user's pending search while the
\* searches the other user has pending, with and without a chat, are in place
C19_Witness ==
    /\ ev.kind = "text"
    /\ ev.status = "MEMBER"
    /\ CallsOf(ev, {"reply_text"}) # <<>>
    /\ user_search_states[EventKey(ev)] = Absent
    /\ \A k \in Keys : k[2] # ev.user => user_search_states[k] # Absent

----------------------------------------------------------------------------
(* C20 *)

\* C20: a /start command, a /check_subscription command and a press of the
\* check_subscription button leave user_search_states as it was, for every
\* (chat, user), whatever is_subscribed answers and whichever calls raise.
C20_CommandsKeepSessions ==
    [][ (\/ ev'.kind \in {"start", "check_subscription"}
         \/ ev'.kind = "button" /\ ev'.data = "check_subscription") =>
          user_search_states' = user_search_states
      ]_vars

\* a /start of an unsubscribed user was handled while both users had a
\* search pending
C20_Witness ==
    /\ ev.kind = "start"
    /\ ev.has_message
    /\ ev.status = "NOT_MEMBER"
    /\ \A u \in Users : \E k \in Keys : k[2] = u /\ user_search_states[k] # Absent

----------------------------------------------------------------------------
(* C21 *)

\* C21 as claimed: a handled button press makes at least one query.answer
\* call and at most one of its query.answer calls returns, so the callback
\* query is never acknowledged twice.
C21_AcknowledgedOnce ==
    ev.kind = "button" =>
        LET answers == CallsOf(ev, {"answer"})
        IN  /\ answers # <<>>
            /\ Len(SelectSeq(answers, LAMBDA c : c.ok)) <= 1

----------------------------------------------------------------------------
(* C22 *)

\* C22 as claimed: every entry of user_search_states has a chat id in its
\* key, and a press of search_user, search_channel or search_group whose
\* prompt was not shown (no edit_message_text call returned: the edit raised,
\* or the press has no message) leaves the entry of the pressing
\* (chat, user) as it was before the press.
C22_NoEntryWithoutPrompt ==
    [][ /\ \A k \in Keys : user_search_states'[k] # Absent => k[1] # None
        /\ (/\ ev'.kind = "button"
            /\ ev'.data \in {"search_user", "search_channel", "search_group"}
            /\ \A i \in DOMAIN ev'.out :
                  ev'.out[i].call = "edit_message_text" => ~ev'.out[i].ok) =>
              user_search_states'[EventKey(ev')] = user_search_states[EventKey(ev')]
      ]_vars

====
